---- MODULE Spec2Model ----
(***************************************************************************)
(* State-machine model of the four-stage rates-vs-equity pipeline          *)
(* (scripts/01_fetch_data.py .. scripts/04_make_report.py).                *)
(*                                                                         *)
(* Strings that the code inspects (column names, file suffixes) are        *)
(* sequences of one-character strings, so that str.startswith, the `in`    *)
(* substring test, str.lower and prefixing are computed, not assumed.      *)
(* A table cell is a record [k, n, d]:                                     *)
(*    k = "num"  the finite number n                                       *)
(*    k = "nan"  a missing value (NaN)                                     *)
(*    k = "inf"  +infinity (n = 1) or -infinity (n = -1)                   *)
(*    k = "str"  non-numeric text                                          *)
(*    k = "date" text that parses as the date with ordinal n               *)
(*    k = "lnr"  ln(n) - ln(d), the log return from price d to price n     *)
(*    k = "std"  the sample standard deviation of the window w             *)
(* A date is the ordinal of its day.                                       *)
(***************************************************************************)
EXTENDS Integers, Sequences, FiniteSets, TLC

VARIABLES
    env,      \* stage 1: what RATES_SOURCE_PATH / EQUITY_SOURCE_PATH point to
    rawDir,   \* data/raw:        rawDir[stem][ext]
    procDir,  \* data/processed:  procDir["parquet"], procDir["csv"]
    reports,  \* reports/:        reports[artifact]
    clock,    \* wall clock (seconds), read by the report timestamps
    pc3,      \* position of the running 03_run_analysis.main
    loc3,     \* its local variables
    last,     \* the stage run that ended last and how it ended
    before,   \* the files and `last` as the running (or last) stage run found them
    written,  \* the files the running (or last) stage run has written
    arg,      \* argument of a helper under test
    ret       \* its return value

vars == <<env, rawDir, procDir, reports, clock, pc3, loc3, last, before, written, arg, ret>>

(***************************************************************************)
(* Bounds of the model                                                     *)
(***************************************************************************)
MaxRateRows == 4
MaxDate == 4
MaxSeriesLen == 4
RowSlack == 2
MaxDays == 40
MaxClock == 1

(***************************************************************************)
(* Generic helpers                                                         *)
(***************************************************************************)
Range(s) == {s[i] : i \in DOMAIN s}

RECURSIVE SeqsUpTo(_, _)
SeqsUpTo(S, n) ==
    IF n = 0 THEN {<<>>}
    ELSE LET shorter == SeqsUpTo(S, n - 1)
         IN  shorter \cup {Append(s, x) : s \in {t \in shorter : Len(t) = n - 1}, x \in S}

\* The integers of S in ascending order.
SortedSeq(S) ==
    IF S = {} THEN <<>>
    ELSE LET lo == CHOOSE x \in S : \A y \in S : x <= y
             hi == CHOOSE x \in S : \A y \in S : y <= x
             Member(x) == x \in S
         IN  SelectSeq([i \in 1..(hi - lo + 1) |-> lo + i - 1], Member)

(***************************************************************************)
(* Strings                                                                 *)
(***************************************************************************)
UpperChars == <<"A","B","C","D","E","F","G","H","I","J","K","L","M",
                "N","O","P","Q","R","S","T","U","V","W","X","Y","Z">>
LowerChars == <<"a","b","c","d","e","f","g","h","i","j","k","l","m",
                "n","o","p","q","r","s","t","u","v","w","x","y","z">>

LowerChar(c) ==
    IF \E i \in DOMAIN UpperChars : UpperChars[i] = c
    THEN LowerChars[CHOOSE i \in DOMAIN UpperChars : UpperChars[i] = c]
    ELSE c

\* str.lower()
Lower(s) == [i \in DOMAIN s |-> LowerChar(s[i])]

\* str.startswith(prefix)
StartsWith(s, prefix) ==
    /\ Len(prefix) <= Len(s)
    /\ SubSeq(s, 1, Len(prefix)) = prefix

\* sub in s
Contains(s, sub) ==
    \E i \in 1..(Len(s) + 1) :
        /\ i + Len(sub) - 1 <= Len(s)
        /\ SubSeq(s, i, i + Len(sub) - 1) = sub

S_date == <<"d","a","t","e">>
S_Date == <<"D","a","t","e">>
S_DATE == <<"D","A","T","E">>
S_datetime == <<"d","a","t","e","t","i","m","e">>
S_Datetime == <<"D","a","t","e","t","i","m","e">>
S_DATETIME == <<"D","A","T","E","T","I","M","E">>
S_dt == <<"d","t">>
S_timestamp == <<"t","i","m","e","s","t","a","m","p">>
S_time == <<"t","i","m","e">>
S_eq == <<"e","q","_">>
S_rate == <<"r","a","t","e","_">>
S_d == <<"d","_">>
S_d_rate == <<"d","_","r","a","t","e","_">>
S_3m == <<"3","m">>
S_10y == <<"1","0","y">>
S_SPX == <<"S","P","X">>
S_NDX == <<"N","D","X">>
S_note == <<"n","o","t","e">>
S_day == <<"d","a","y">>
S_csv == <<".","c","s","v">>
S_parquet == <<".","p","a","r","q","u","e","t">>

(***************************************************************************)
(* Cells and their arithmetic (IEEE doubles as numpy/pandas compute them)  *)
(***************************************************************************)
NaN == [k |-> "nan", n |-> 0, d |-> 1]
Num(i) == [k |-> "num", n |-> i, d |-> 1]
PosInf == [k |-> "inf", n |-> 1, d |-> 1]
NegInf == [k |-> "inf", n |-> -1, d |-> 1]
Txt == [k |-> "str", n |-> 0, d |-> 1]
DateCell(i) == [k |-> "date", n |-> i, d |-> 1]

IsNa(c) == c.k = "nan"
IsNumericCell(c) == c.k \in {"num", "nan", "inf", "lnr", "std"}

\* a - b on doubles
Sub(a, b) ==
    CASE IsNa(a) \/ IsNa(b) -> NaN
      [] a.k = "num" /\ b.k = "num" -> Num(a.n - b.n)
      [] a.k = "inf" /\ b.k = "inf" -> IF a.n = b.n THEN NaN ELSE a
      [] a.k = "inf" -> a
      [] b.k = "inf" -> IF b.n = 1 THEN NegInf ELSE PosInf
      [] OTHER -> NaN

(***************************************************************************)
(* Frames: [cols, num, idx, rows].  cols is the column order, num the set  *)
(* of columns of numeric dtype, idx the kind of index ("range" or          *)
(* "datetime"), rows[i] = [date |-> index value, vals |-> cells by column]. *)
(***************************************************************************)
ColPos(cols, c) == CHOOSE i \in DOMAIN cols : cols[i] = c

Column(df, c) == [i \in DOMAIN df.rows |-> df.rows[i].vals[ColPos(df.cols, c)]]

Index(df) == [i \in DOMAIN df.rows |-> df.rows[i].date]

Project(df, pos) ==
    [df EXCEPT
        !.cols = [j \in DOMAIN pos |-> df.cols[pos[j]]],
        !.rows = [i \in DOMAIN df.rows |->
                     [df.rows[i] EXCEPT !.vals = [j \in DOMAIN pos |-> df.rows[i].vals[pos[j]]]]]]

(***************************************************************************)
(* Files.  A tabular file holds a table; Absent is a path with no file.    *)
(***************************************************************************)
Absent == [exists |-> FALSE, readable |-> FALSE, cols |-> <<>>, idx |-> "range", rows |-> <<>>]

TableFile(cols, idx, rows) ==
    [exists |-> TRUE, readable |-> TRUE, cols |-> cols, idx |-> idx, rows |-> rows]

\* A file that exists and that no reader can parse.
Corrupt == [exists |-> TRUE, readable |-> FALSE, cols |-> <<>>, idx |-> "range", rows |-> <<>>]

\* pd.read_csv / pd.read_parquet: the dtype of a column is numeric when it has
\* cells and all of them are numbers, missing or infinite.
ReadTable(f) ==
    [cols |-> f.cols,
     num  |-> {c \in Range(f.cols) :
                 /\ f.rows # <<>>
                 /\ \A i \in DOMAIN f.rows : IsNumericCell(f.rows[i].vals[ColPos(f.cols, c)])},
     idx  |-> f.idx,
     rows |-> f.rows]

(***************************************************************************)
(* 02_build_dataset.py                                                     *)
(***************************************************************************)
\* _find_file: the extensions in the order tried.
FindExts == <<S_parquet, S_csv>>

_find_file(dir, stem) ==
    IF \E i \in DOMAIN FindExts : dir[stem][FindExts[i]].exists
    THEN dir[stem][FindExts[CHOOSE i \in DOMAIN FindExts :
                        /\ dir[stem][FindExts[i]].exists
                        /\ \A j \in 1..(i - 1) : ~dir[stem][FindExts[j]].exists]]
    ELSE Absent

_read_any(f) == ReadTable(f)

DateCandidates == <<S_date, S_Date, S_DATE, S_datetime, S_Datetime, S_DATETIME>>

_infer_date_col(df) ==
    IF \E i \in DOMAIN DateCandidates : DateCandidates[i] \in Range(df.cols)
    THEN DateCandidates[CHOOSE i \in DOMAIN DateCandidates :
                           /\ DateCandidates[i] \in Range(df.cols)
                           /\ \A j \in 1..(i - 1) : DateCandidates[j] \notin Range(df.cols)]
    ELSE df.cols[1]

\* pd.to_datetime(cell, errors="coerce"): date text parses, a number is an
\* offset from the epoch, anything else becomes NaT (ok = FALSE).
ToDatetime(c) ==
    CASE c.k = "date" -> [ok |-> TRUE, t |-> c.n]
      [] c.k = "num"  -> [ok |-> TRUE, t |-> c.n]
      [] OTHER        -> [ok |-> FALSE, t |-> 0]

\* DataFrame.sort_values on the date: ascending, rows of equal date in input order.
RECURSIVE SortByDate(_)
SortByDate(rows) ==
    IF Len(rows) <= 1 THEN rows
    ELSE LET pivot == rows[(Len(rows) + 1) \div 2].date
             Earlier(r) == r.date < pivot
             Same(r)    == r.date = pivot
             Later(r)   == r.date > pivot
         IN  SortByDate(SelectSeq(rows, Earlier))
               \o SelectSeq(rows, Same)
               \o SortByDate(SelectSeq(rows, Later))

\* Mutant of _standardize_date_index: the rows are left in input order.
_standardize_date_index_unsorted(df) ==
    LET date_col == _infer_date_col(df)
        p        == ColPos(df.cols, date_col)
        rest     == Project(df, SortedSeq({j \in DOMAIN df.cols : df.cols[j] # date_col}))
        parsed   == [i \in DOMAIN df.rows |->
                        [date |-> ToDatetime(df.rows[i].vals[p]).t,
                         ok   |-> ToDatetime(df.rows[i].vals[p]).ok,
                         vals |-> rest.rows[i].vals]]
        Valid(r) == r.ok
        kept     == SelectSeq(parsed, Valid)
    IN  [cols |-> rest.cols,
         num  |-> df.num \ {date_col},
         idx  |-> "datetime",
         rows |-> [i \in DOMAIN kept |-> [date |-> kept[i].date, vals |-> kept[i].vals]]]

_standardize_date_index(df) ==
    LET date_col == _infer_date_col(df)
        p        == ColPos(df.cols, date_col)
        rest     == Project(df, SortedSeq({j \in DOMAIN df.cols : df.cols[j] # date_col}))
        parsed   == [i \in DOMAIN df.rows |->
                        [date |-> ToDatetime(df.rows[i].vals[p]).t,
                         ok   |-> ToDatetime(df.rows[i].vals[p]).ok,
                         vals |-> rest.rows[i].vals]]
        Valid(r) == r.ok
        kept     == SelectSeq(parsed, Valid)
        sorted   == SortByDate(kept)
    IN  [cols |-> rest.cols,
         num  |-> df.num \ {date_col},
         idx  |-> "datetime",
         rows |-> [i \in DOMAIN sorted |-> [date |-> sorted[i].date, vals |-> sorted[i].vals]]]

\* _keep_numeric raises ValueError when no numeric column is left.
NoNumeric(df) == \A c \in Range(df.cols) : c \notin df.num

_keep_numeric(df) ==
    Project(df, SortedSeq({j \in DOMAIN df.cols : df.cols[j] \in df.num}))

\* DataFrame.add_prefix
add_prefix(df, prefix) ==
    [df EXCEPT !.cols = [j \in DOMAIN df.cols |-> prefix \o df.cols[j]],
               !.num  = {prefix \o c : c \in df.num}]

\* Mutant of diff: previous row minus current row.
diff_reversed(df) ==
    [df EXCEPT !.rows = [i \in DOMAIN df.rows |->
        [df.rows[i] EXCEPT !.vals = [j \in DOMAIN df.cols |->
            IF i = 1 THEN NaN ELSE Sub(df.rows[i - 1].vals[j], df.rows[i].vals[j])]]]]

\* DataFrame.diff(): current row minus previous row; the first row is missing.
diff(df) ==
    [df EXCEPT !.rows = [i \in DOMAIN df.rows |->
        [df.rows[i] EXCEPT !.vals = [j \in DOMAIN df.cols |->
            IF i = 1 THEN NaN ELSE Sub(df.rows[i].vals[j], df.rows[i - 1].vals[j])]]]]

HasDuplicateDates(df) ==
    \E i, j \in DOMAIN df.rows : i # j /\ df.rows[i].date = df.rows[j].date

RowAt(df, t) == df.rows[CHOOSE i \in DOMAIN df.rows : df.rows[i].date = t]

\* pd.concat([a, b, c], axis=1, join="inner"): the index is a's index cut down
\* to the dates the others hold too; pandas refuses (InvalidIndexError) to
\* reindex a frame whose index repeats a date.
ConcatRaises(a, b, c) ==
    HasDuplicateDates(a) \/ HasDuplicateDates(b) \/ HasDuplicateDates(c)

concat_inner(a, b, c) ==
    LET InAll(r) == /\ \E i \in DOMAIN b.rows : b.rows[i].date = r.date
                    /\ \E i \in DOMAIN c.rows : c.rows[i].date = r.date
        base == SelectSeq(a.rows, InAll)
    IN  [cols |-> a.cols \o b.cols \o c.cols,
         num  |-> a.num \cup b.num \cup c.num,
         idx  |-> "datetime",
         rows |-> [i \in DOMAIN base |->
                     [date |-> base[i].date,
                      vals |-> base[i].vals \o RowAt(b, base[i].date).vals
                                            \o RowAt(c, base[i].date).vals]]]

\* Mutant of dropna: the rows with a missing value stay.
dropna_kept(df) == df

\* DataFrame.dropna(): drop every row with a missing value in any column.
dropna(df) ==
    LET Complete(r) == \A j \in DOMAIN r.vals : ~IsNa(r.vals[j])
    IN  [df EXCEPT !.rows = SelectSeq(df.rows, Complete)]

\* main, lines 107-120: [raised, dataset].  Reading a path that holds no
\* table raises.
BuildDataset(ratesFile, equityFile) ==
    LET rates0  == _standardize_date_index(_read_any(ratesFile))
        equity0 == _standardize_date_index(_read_any(equityFile))
    IN  IF ~ratesFile.readable \/ ~equityFile.readable
        THEN [raised |-> TRUE, dataset |-> Absent]
        ELSE IF NoNumeric(rates0) \/ NoNumeric(equity0)
        THEN [raised |-> TRUE, dataset |-> Absent]
        ELSE LET rates  == add_prefix(_keep_numeric(rates0), S_rate)
                 equity == add_prefix(_keep_numeric(equity0), S_eq)
                 rate_changes == add_prefix(diff(rates), S_d)
             IN  IF ConcatRaises(equity, rates, rate_changes)
                 THEN [raised |-> TRUE, dataset |-> Absent]
                 ELSE [raised |-> FALSE,
                       dataset |-> dropna(concat_inner(equity, rates, rate_changes))]

\* DataFrame.to_parquet: columns, dtypes and the date index as they are.
to_parquet(df) == TableFile(df.cols, df.idx, df.rows)

\* DataFrame.to_csv: the index is written as a first column named "date".
to_csv(df) ==
    TableFile(<<S_date>> \o df.cols, "range",
              [i \in DOMAIN df.rows |->
                  [date |-> i - 1, vals |-> <<DateCell(df.rows[i].date)>> \o df.rows[i].vals]])

\* Mutant of RawMissing: only the absence of both files stops the run.
RawMissing_both(dir) ==
    ~_find_file(dir, "rates").exists /\ ~_find_file(dir, "equity").exists

\* main, line 93: rates_path is None or equity_path is None
RawMissing(dir) ==
    ~_find_file(dir, "rates").exists \/ ~_find_file(dir, "equity").exists

\* 02_build_dataset.main, one run.
Snapshot == [last |-> last, raw |-> rawDir, proc |-> procDir, reports |-> reports]

Stage2 ==
    /\ pc3 = "idle"
    /\ before' = Snapshot
    /\ IF RawMissing(rawDir)
       THEN /\ last' = [stage |-> 2, rc |-> 0, how |-> "exit"]
            /\ written' = {}
            /\ UNCHANGED procDir
       ELSE LET built == BuildDataset(_find_file(rawDir, "rates"), _find_file(rawDir, "equity"))
            IN  IF built.raised
                THEN /\ last' = [stage |-> 2, rc |-> 1, how |-> "raise"]
                     /\ written' = {}
                     /\ UNCHANGED procDir
                ELSE /\ last' = [stage |-> 2, rc |-> 0, how |-> "done"]
                     /\ written' = {"dataset.parquet", "dataset.csv"}
                     /\ procDir' = [procDir EXCEPT !["parquet"] = to_parquet(built.dataset),
                                                   !["csv"] = to_csv(built.dataset)]
    /\ UNCHANGED <<env, rawDir, reports, clock, pc3, loc3, arg, ret>>

(***************************************************************************)
(* Input tables.  A table is described by the dates it holds, the dates    *)
(* whose value is missing, the pattern of its values and a variant of its  *)
(* layout; MakeTable builds the file.                                      *)
(***************************************************************************)
Reverse(s) == [i \in DOMAIN s |-> s[Len(s) + 1 - i]]

PatternValue(pat, t) ==
    CASE pat = "square" -> t * t
      [] pat = "alternate" -> t % 2
      [] pat = "price" -> 100 + t
      [] pat = "return" -> (t % 3) - 1
      [] OTHER -> t

Variants == {"plain", "reversed", "badrow", "dup", "datesecond", "fallback",
             "nonum", "twocol", "textcol"}

MakeTable(col, dates, nans, pat, variant) ==
    LET ds == IF variant = "reversed" THEN Reverse(SortedSeq(dates)) ELSE SortedSeq(dates)
        V(t) == IF t \in nans THEN NaN ELSE Num(PatternValue(pat, t))
        cols == CASE variant = "datesecond" -> <<col, S_Date>>
                  [] variant = "fallback" -> <<S_day, col>>
                  [] variant = "nonum" -> <<S_date, S_note>>
                  [] variant = "twocol" -> <<S_date, col, S_10y>>
                  [] variant = "textcol" -> <<S_date, S_note, col>>
                  [] OTHER -> <<S_date, col>>
        Cells(t) == CASE variant = "datesecond" -> <<V(t), DateCell(t)>>
                      [] variant = "nonum" -> <<DateCell(t), Txt>>
                      [] variant = "twocol" -> <<DateCell(t), V(t), Num(t)>>
                      [] variant = "textcol" -> <<DateCell(t), Txt, V(t)>>
                      [] OTHER -> <<DateCell(t), V(t)>>
        body == [i \in DOMAIN ds |-> Cells(ds[i])]
        all  == CASE variant = "badrow" -> <<<<Txt, Num(5)>>>> \o body
                  [] variant = "dup" /\ body # <<>> -> Append(body, body[1])
                  [] OTHER -> body
    IN  TableFile(cols, "range", [i \in DOMAIN all |-> [date |-> i - 1, vals |-> all[i]]])

EmptyRaw == [stem \in {"rates", "equity"} |-> [e \in {S_parquet, S_csv} |-> Absent]]
EmptyProc == [f \in {"parquet", "csv"} |-> Absent]
Artifacts == {"baseline_regression.txt", "baseline_scatter.png",
              "volatility_scatter.png", "summary.md"}
EmptyReports == [a \in Artifacts |-> Absent]
NoEnv == [v \in {"RATES_SOURCE_PATH", "EQUITY_SOURCE_PATH"} |->
             [set |-> FALSE, isfile |-> FALSE, suffix |-> <<>>, content |-> Absent]]
NoLocals == [df |-> Absent]
NotCalled == [raised |-> FALSE, value |-> <<>>, called |-> FALSE]
NoRun == [stage |-> 0, rc |-> 0, how |-> "none"]
NoSnapshot == [last |-> NoRun, raw |-> EmptyRaw, proc |-> EmptyProc, reports |-> EmptyReports]

(***************************************************************************)
(* Specification of stage 2 alone, over small arbitrary tables             *)
(***************************************************************************)
\* The sets of at most one of the dates.
AtMostOne(dates) == {{}} \cup {{t} : t \in dates}

RatesTables ==
    {MakeTable(S_3m, 1..n, nans, pat, "plain") :
        n \in 0..MaxRateRows, nans \in AtMostOne(1..MaxRateRows), pat \in {"square", "alternate"}}

EquityTables ==
    UNION {{MakeTable(S_SPX, dates, nans, "price", "plain") : nans \in AtMostOne(dates)} :
              dates \in SUBSET (1..MaxDate)}

RatesVariantTables ==
    {MakeTable(S_3m, 1..n, nans, "square", v) :
        n \in 1..MaxRateRows, nans \in {{}, {2}}, v \in Variants \ {"plain"}}

EquityVariantTables ==
    {MakeTable(S_SPX, dates, {}, "price", v) :
        dates \in {(1..MaxDate) \ {1}, (1..MaxDate) \ {3}}, v \in Variants \ {"plain"}}

AlignInputs ==
    (RatesTables \X EquityTables)
      \cup (RatesVariantTables \X {e \in EquityTables : \A i \in DOMAIN e.rows : ~IsNa(e.rows[i].vals[2])})
      \cup ({r \in RatesTables : \A i \in DOMAIN r.rows : ~IsNa(r.rows[i].vals[2])} \X EquityVariantTables)
      \cup (RatesTables \X {Absent})
      \cup ({Absent} \X EquityVariantTables)

InitAlign ==
    /\ \E in \in AlignInputs, re \in {S_csv, S_parquet} :
          rawDir = [EmptyRaw EXCEPT !["rates"][re] = in[1], !["equity"][S_csv] = in[2]]
    /\ env = NoEnv
    /\ procDir = EmptyProc
    /\ reports = EmptyReports
    /\ clock = 0
    /\ pc3 = "idle"
    /\ loc3 = NoLocals
    /\ last = NoRun
    /\ before = NoSnapshot
    /\ written = {}
    /\ arg = <<>>
    /\ ret = NotCalled

SpecAlign == InitAlign /\ [][Stage2]_vars

(***************************************************************************)
(* Stage 2 claims.  The expected result is stated from the raw files by    *)
(* date, not by replaying the frame operations.                            *)
(***************************************************************************)
TheRates == _find_file(rawDir, "rates")
TheEquity == _find_file(rawDir, "equity")

DateCol(f) == _infer_date_col(ReadTable(f))

ValidRows(f) == {i \in DOMAIN f.rows : ToDatetime(f.rows[i].vals[ColPos(f.cols, DateCol(f))]).ok}

DateOfRow(f, i) == ToDatetime(f.rows[i].vals[ColPos(f.cols, DateCol(f))]).t

ValidDateSet(f) == {DateOfRow(f, i) : i \in ValidRows(f)}

SeriesCols(f) == ReadTable(f).num \ {DateCol(f)}

\* The cell of series c in the row of f dated t.
CellAt(f, t, c) ==
    f.rows[CHOOSE i \in ValidRows(f) : DateOfRow(f, i) = t].vals[ColPos(f.cols, c)]

HasEarlier(f, t) == \E u \in ValidDateSet(f) : u < t

\* The observation of f before t, in date order.
PrevDate(f, t) ==
    CHOOSE u \in ValidDateSet(f) : u < t /\ \A w \in ValidDateSet(f) : w < t => w <= u

FirstDate(f) == CHOOSE u \in ValidDateSet(f) : \A w \in ValidDateSet(f) : u <= w

\* No joined column (eq_*, rate_*, d_rate_*) is missing at date t.
CompleteAt(t) ==
    /\ \A c \in SeriesCols(TheEquity) : ~IsNa(CellAt(TheEquity, t, c))
    /\ \A c \in SeriesCols(TheRates) : ~IsNa(CellAt(TheRates, t, c))
    /\ HasEarlier(TheRates, t)
    /\ \A c \in SeriesCols(TheRates) :
          ~IsNa(Sub(CellAt(TheRates, t, c), CellAt(TheRates, PrevDate(TheRates, t), c)))

ExpectedDates ==
    {t \in ValidDateSet(TheRates) \cap ValidDateSet(TheEquity) : CompleteAt(t)}

StrictlyAscending(s) == \A i, j \in DOMAIN s : i < j => s[i] < s[j]

DatasetWritten == last.stage = 2 /\ last.how = "done"

Dataset == ReadTable(procDir["parquet"])

\* C1: the index of the dataset stage 2 writes is the ascending sequence of the
\* dates that parse in both raw tables and at which no joined column is
\* missing; the CSV copy lists the same dates.
C1_AlignedIndex ==
    DatasetWritten =>
        /\ StrictlyAscending(Index(Dataset))
        /\ Range(Index(Dataset)) = ExpectedDates
        /\ [i \in DOMAIN procDir["csv"].rows |-> procDir["csv"].rows[i].vals[1]]
              = [i \in DOMAIN Dataset.rows |-> DateCell(Dataset.rows[i].date)]

\* C1 witness: unsorted or gappy inputs joined to at least two rows, with a
\* common date dropped for a missing value other than the first difference.
C1_Witness ==
    /\ DatasetWritten
    /\ Len(Dataset.rows) >= 2
    /\ \E t \in ValidDateSet(TheRates) \cap ValidDateSet(TheEquity) :
          t # FirstDate(TheRates) /\ t \notin Range(Index(Dataset))
    /\ \E t \in ValidDateSet(TheRates) : t \notin ValidDateSet(TheEquity)

\* C2 (as amended): in every row of the dataset, d_rate_X is rate_X at that
\* date minus rate_X at the previous observation of the rate table, and the
\* first observation of the rate table is not in the dataset.
C2_FirstDifference ==
    DatasetWritten =>
        /\ \A i \in DOMAIN Dataset.rows : \A c \in SeriesCols(TheRates) :
              LET t == Dataset.rows[i].date
              IN  /\ HasEarlier(TheRates, t)
                  /\ Column(Dataset, S_d_rate \o c)[i]
                       = Sub(Column(Dataset, S_rate \o c)[i],
                             CellAt(TheRates, PrevDate(TheRates, t), c))
                  /\ Column(Dataset, S_rate \o c)[i] = CellAt(TheRates, t, c)
        /\ ValidDateSet(TheRates) # {} => FirstDate(TheRates) \notin Range(Index(Dataset))

\* A rate observation lies between two consecutive rows of the dataset.
DatasetSkipsRate ==
    \E i \in DOMAIN Dataset.rows : \E u \in ValidDateSet(TheRates) :
        /\ i > 1
        /\ Dataset.rows[i - 1].date < u
        /\ u < Dataset.rows[i].date

\* C2 witness: a dataset whose consecutive rows are not consecutive rate
\* observations.
C2_Witness == DatasetWritten /\ DatasetSkipsRate

\* C2 as stated: beyond the first retained row, d_rate_X is rate_X minus
\* rate_X of the previous row of the dataset.
C2_Original ==
    DatasetWritten =>
        /\ \A i \in DOMAIN Dataset.rows : \A c \in SeriesCols(TheRates) :
              i > 1 =>
                  Column(Dataset, S_d_rate \o c)[i]
                     = Sub(Column(Dataset, S_rate \o c)[i], Column(Dataset, S_rate \o c)[i - 1])
        /\ ValidDateSet(TheRates) # {} => FirstDate(TheRates) \notin Range(Index(Dataset))

(***************************************************************************)
(* 03_run_analysis.py: helpers                                             *)
(***************************************************************************)
\* pd.to_numeric(errors="coerce") on one cell
ToNumeric(c) == IF IsNumericCell(c) THEN c ELSE NaN

to_numeric(s) == [i \in DOMAIN s |-> ToNumeric(s[i])]

\* np.abs
AbsCell(c) ==
    CASE c.k = "num" -> Num(IF c.n < 0 THEN -c.n ELSE c.n)
      [] c.k = "inf" -> PosInf
      [] OTHER -> c

\* a <= b on doubles that are not NaN
CellLeq(a, b) ==
    CASE a.k = "num" /\ b.k = "num" -> a.n <= b.n
      [] a.k = "inf" /\ b.k = "inf" -> a.n <= b.n
      [] a.k = "inf" -> a.n = -1
      [] OTHER -> b.n = 1

\* np.sort on doubles that are not NaN: ascending, equal values in input order.
RECURSIVE SortCells(_)
SortCells(s) ==
    IF Len(s) <= 1 THEN s
    ELSE LET pivot == s[(Len(s) + 1) \div 2]
             Smaller(c) == ~CellLeq(pivot, c)
             Same(c)    == CellLeq(c, pivot) /\ CellLeq(pivot, c)
             Larger(c)  == ~CellLeq(c, pivot)
         IN  SortCells(SelectSeq(s, Smaller))
               \o SelectSeq(s, Same)
               \o SortCells(SelectSeq(s, Larger))

NotNa(c) == ~IsNa(c)

\* a + b on doubles that are not NaN and not -infinity
AddAbs(a, b) == IF a.k = "inf" \/ b.k = "inf" THEN PosInf ELSE Num(a.n + b.n)

\* np.nanmedian, doubled to stay in the integers: the middle value counted
\* twice, or the sum of the two middle values; NaN when nothing is left.
nanmedian2(s) ==
    LET v == SortCells(SelectSeq(s, NotNa))
        n == Len(v)
    IN  IF n = 0 THEN NaN
        ELSE IF n % 2 = 1 THEN AddAbs(v[(n + 1) \div 2], v[(n + 1) \div 2])
        ELSE AddAbs(v[n \div 2], v[n \div 2 + 1])

\* np.nanmin; NaN when every value is missing.
nanmin(s) ==
    LET v == SortCells(SelectSeq(s, NotNa))
    IN  IF v = <<>> THEN NaN ELSE v[1]

\* np.log(a) - np.log(b) for a, b > 0 or missing
LogDiff(a, b) ==
    CASE IsNa(a) \/ IsNa(b) -> NaN
      [] a.k = "num" /\ b.k = "num" ->
            IF a.n = b.n THEN Num(0) ELSE [k |-> "lnr", n |-> a.n, d |-> b.n]
      [] a.k = "inf" /\ b.k = "inf" -> NaN
      [] a.k = "inf" -> PosInf
      [] OTHER -> NegInf

\* np.log(s).diff()
log_diff(s) == [i \in DOMAIN s |-> IF i = 1 THEN NaN ELSE LogDiff(s[i], s[i - 1])]

\* The magnitude above which a series is taken for a price level.
PriceLevelThreshold == 5

\* Mutant of LooksLikePrice: the threshold itself counts as a price level.
LooksLikePrice_inclusive(med2, s_min) ==
    /\ med2.k = "num"
    /\ med2.n >= 2 * PriceLevelThreshold
    /\ s_min.k # "nan" /\ ~CellLeq(s_min, Num(0))

\* The heuristic of _ensure_returns (line 63): np.isfinite(s_abs_med) and
\* s_abs_med > 5 and s_min > 0, on the doubled median.
LooksLikePrice(med2, s_min) ==
    /\ med2.k = "num"
    /\ med2.n > 2 * PriceLevelThreshold
    /\ s_min.k # "nan" /\ ~CellLeq(s_min, Num(0))

\* _ensure_returns: np.nanmin raises ValueError on a series of length 0.
_ensure_returns(series) ==
    LET s == to_numeric(series)
    IN  IF s = <<>> THEN [raised |-> TRUE, value |-> <<>>]
        ELSE IF LooksLikePrice(nanmedian2([i \in DOMAIN s |-> AbsCell(s[i])]), nanmin(s))
        THEN [raised |-> FALSE, value |-> log_diff(s)]
        ELSE [raised |-> FALSE, value |-> s]

(***************************************************************************)
(* Specification of _ensure_returns alone, over short series               *)
(***************************************************************************)
SeriesValues == {NaN, PosInf, Num(-6), Num(0), Num(4), Num(5), Num(6), Num(7)}

InitReturns ==
    /\ arg \in SeqsUpTo(SeriesValues, MaxSeriesLen)
    /\ ret = NotCalled
    /\ env = NoEnv
    /\ rawDir = EmptyRaw
    /\ procDir = EmptyProc
    /\ reports = EmptyReports
    /\ clock = 0
    /\ pc3 = "idle"
    /\ loc3 = NoLocals
    /\ last = NoRun
    /\ before = NoSnapshot
    /\ written = {}

CallEnsureReturns ==
    /\ ~ret.called
    /\ ret' = [raised |-> _ensure_returns(arg).raised,
               value |-> _ensure_returns(arg).value,
               called |-> TRUE]
    /\ UNCHANGED <<env, rawDir, procDir, reports, clock, pc3, loc3, last, before, written, arg>>

SpecReturns == InitReturns /\ [][CallEnsureReturns]_vars

(***************************************************************************)
(* _ensure_returns claims.  The median is stated by rank, not by sorting.  *)
(***************************************************************************)
Present(s) == {i \in DOMAIN s : ~IsNa(s[i])}

\* The absolute value of rank r (1 = smallest) among the non-missing values.
AbsOfRank(s, r) ==
    AbsCell(s[CHOOSE i \in Present(s) :
        /\ Cardinality({j \in Present(s) : ~CellLeq(AbsCell(s[i]), AbsCell(s[j]))}) < r
        /\ r <= Cardinality({j \in Present(s) : CellLeq(AbsCell(s[j]), AbsCell(s[i]))})])

LowMid(s) == AbsOfRank(s, (Cardinality(Present(s)) + 1) \div 2)
HighMid(s) == AbsOfRank(s, Cardinality(Present(s)) \div 2 + 1)

MedianAbsInfinite(s) == Present(s) # {} /\ HighMid(s).k = "inf"

MedianAbsAbove(s) ==
    /\ Present(s) # {}
    /\ \/ HighMid(s).k = "inf"
       \/ LowMid(s).n + HighMid(s).n > 2 * PriceLevelThreshold

MedianAbsAtMost(s) ==
    /\ Present(s) # {}
    /\ HighMid(s).k = "num"
    /\ LowMid(s).n + HighMid(s).n <= 2 * PriceLevelThreshold

HasNonPositive(s) == \E i \in Present(s) : CellLeq(s[i], Num(0))

IsLogDifference(out, s) ==
    /\ Len(out) = Len(s)
    /\ IsNa(out[1])
    /\ \A i \in 2..Len(s) : out[i] = LogDiff(s[i], s[i - 1])

\* C3 (as amended): a series with median absolute value <= 5 or with a
\* non-positive value is returned unchanged; a series with a finite median
\* absolute value > 5 and only positive values is returned log-differenced; a
\* series whose median absolute value is infinite is returned unchanged.
C3_ReturnTransform ==
    (ret.called /\ ~ret.raised) =>
        /\ (MedianAbsAtMost(arg) \/ HasNonPositive(arg)) => ret.value = arg
        /\ (MedianAbsAbove(arg) /\ ~MedianAbsInfinite(arg) /\ ~HasNonPositive(arg))
              => IsLogDifference(ret.value, arg)
        /\ MedianAbsInfinite(arg) => ret.value = arg

\* C3 witness: a positive series just above the threshold (4, 6, 7: median 6)
\* was log-differenced into a series that differs from it.
C3_Witness ==
    /\ ret.called
    /\ MedianAbsAbove(arg) /\ ~MedianAbsInfinite(arg) /\ ~HasNonPositive(arg)
    /\ Len(arg) >= 3
    /\ ret.value # arg

\* C3 as stated: every positive series with median absolute value > 5 is
\* log-differenced.
C3_Original ==
    (ret.called /\ ~ret.raised) =>
        /\ (MedianAbsAtMost(arg) \/ HasNonPositive(arg)) => ret.value = arg
        /\ (MedianAbsAbove(arg) /\ ~HasNonPositive(arg)) => IsLogDifference(ret.value, arg)

(***************************************************************************)
(* 03_run_analysis.py: main and its helpers                                *)
(***************************************************************************)
S_vol == <<"v","o","l">>
S_21 == <<"2","1">>
S_vol_21 == <<"v","o","l","_","2","1">>
S_volatility_21 == <<"v","o","l","a","t","i","l","i","t","y","_","2","1">>
S_rolling_vol_21 == <<"r","o","l","l","i","n","g","_","v","o","l","_","2","1">>
S_vol21 == <<"v","o","l","2","1">>
S_vol_1m == <<"v","o","l","_","1","m">>
S_rolling_vol == <<"r","o","l","l","i","n","g","_","v","o","l">>
S_computed == <<"v","o","l","_","2","1"," ","(","c","o","m","p","u","t","e","d",")">>
S_y == <<"y">>
S_x == <<"x">>
S_const == <<"c","o","n","s","t">>

\* The sample sizes below which the regression and the volatility plot are skipped.
MinObservations == 30
MinVolObservations == 30
\* The rolling window of the computed volatility.
VolWindow == 21

\* _load_dataset: the parquet file if it reads, else the CSV file if it reads.
_load_dataset(dir) ==
    IF dir["parquet"].exists /\ dir["parquet"].readable
    THEN [none |-> FALSE, df |-> ReadTable(dir["parquet"])]
    ELSE IF dir["csv"].exists /\ dir["csv"].readable
    THEN [none |-> FALSE, df |-> ReadTable(dir["csv"])]
    ELSE [none |-> TRUE, df |-> ReadTable(Absent)]

\* DataFrame.empty
IsEmpty(df) == df.rows = <<>> \/ df.cols = <<>>

\* Mutant of _pick_first: the last matching column.
_pick_last(cols, prefix) ==
    IF \E i \in DOMAIN cols : StartsWith(cols[i], prefix)
    THEN [none |-> FALSE,
          col |-> cols[CHOOSE i \in DOMAIN cols :
                          /\ StartsWith(cols[i], prefix)
                          /\ \A j \in (i + 1)..Len(cols) : ~StartsWith(cols[j], prefix)]]
    ELSE [none |-> TRUE, col |-> <<>>]

_pick_first(cols, prefix) ==
    IF \E i \in DOMAIN cols : StartsWith(cols[i], prefix)
    THEN [none |-> FALSE,
          col |-> cols[CHOOSE i \in DOMAIN cols :
                          /\ StartsWith(cols[i], prefix)
                          /\ \A j \in 1..(i - 1) : ~StartsWith(cols[j], prefix)]]
    ELSE [none |-> TRUE, col |-> <<>>]

\* pd.to_datetime without errors="coerce" raises on text and on infinity.
ParsesStrictly(c) == c.k \in {"date", "num", "nan"}

IndexCandidates == <<S_date, S_Date, S_DATE, S_dt, S_timestamp, S_time>>

\* df.set_index(dc).sort_index(): NaT (date 0 here) sorts last.
SetIndexSorted(df, dc) ==
    LET p == ColPos(df.cols, dc)
        rest == Project(df, SortedSeq({j \in DOMAIN df.cols : df.cols[j] # dc}))
        parsed == [i \in DOMAIN df.rows |->
                      [date |-> ToDatetime(df.rows[i].vals[p]).t,
                       ok   |-> ToDatetime(df.rows[i].vals[p]).ok,
                       vals |-> rest.rows[i].vals]]
        Valid(r) == r.ok
        NaT(r)   == ~r.ok
        ordered == SortByDate(SelectSeq(parsed, Valid)) \o SelectSeq(parsed, NaT)
    IN  [cols |-> rest.cols,
         num  |-> df.num \ {dc},
         idx  |-> "datetime",
         rows |-> [i \in DOMAIN ordered |-> [date |-> ordered[i].date, vals |-> ordered[i].vals]]]

_maybe_set_datetime_index(df) ==
    LET Usable(i) ==
            /\ IndexCandidates[i] \in Range(df.cols)
            /\ \A r \in DOMAIN df.rows :
                  ParsesStrictly(df.rows[r].vals[ColPos(df.cols, IndexCandidates[i])])
    IN  IF df.idx = "datetime" THEN df
        ELSE IF \E i \in DOMAIN IndexCandidates : Usable(i)
        THEN SetIndexSorted(df, IndexCandidates[CHOOSE i \in DOMAIN IndexCandidates :
                                   Usable(i) /\ \A j \in 1..(i - 1) : ~Usable(j)])
        ELSE [df EXCEPT !.idx = "datetime"]

\* main, lines 148-155: the first d_rate_ column, else the first rate_ column.
PickRate(cols) ==
    IF ~_pick_first(cols, S_d_rate).none THEN _pick_first(cols, S_d_rate)
    ELSE _pick_first(cols, S_rate)

\* Mutant of TooFewObservations: a sample of exactly the minimum is refused too.
TooFewObservations_inclusive(aligned) == Len(aligned) <= MinObservations

\* main, line 164: aligned.shape[0] < 30
TooFewObservations(aligned) == Len(aligned) < MinObservations

\* pd.concat([y, x], axis=1).dropna(): the rows where both are present.
Paired(a, b) ==
    LET pairs == [i \in DOMAIN a |-> <<a[i], b[i]>>]
        Both(pr) == ~IsNa(pr[1]) /\ ~IsNa(pr[2])
    IN  SelectSeq(pairs, Both)

\* Series.rolling(w).std(): missing until w observations are in the window,
\* and when the window holds a missing or infinite value.
rolling_std(r, w) ==
    [i \in DOMAIN r |->
        IF i < w \/ \E j \in (i - w + 1)..i : r[j].k \in {"nan", "inf"}
        THEN NaN
        ELSE [k |-> "std", n |-> 0, d |-> 1, w |-> SubSeq(r, i - w + 1, i)]]

PreferredVolNames ==
    <<S_vol_21, S_volatility_21, S_rolling_vol_21, S_vol21, S_vol_1m, S_rolling_vol, S_vol>>

LooksLikeVol21(c) == Contains(Lower(c), S_vol) /\ Contains(Lower(c), S_21)

\* Mutant of _find_or_build_vol: the name test is case-sensitive.
_find_or_build_vol_cased(df, ret_col) ==
    LET IsPreferred(i) == PreferredVolNames[i] \in Range(df.cols)
        IsMatch(i) == Contains(df.cols[i], S_vol) /\ Contains(df.cols[i], S_21)
    IN  IF \E i \in DOMAIN PreferredVolNames : IsPreferred(i)
        THEN LET name == PreferredVolNames[CHOOSE i \in DOMAIN PreferredVolNames :
                             IsPreferred(i) /\ \A j \in 1..(i - 1) : ~IsPreferred(j)]
             IN  [series |-> to_numeric(Column(df, name)), label |-> name]
        ELSE IF \E i \in DOMAIN df.cols : IsMatch(i)
        THEN LET c == df.cols[CHOOSE i \in DOMAIN df.cols :
                          IsMatch(i) /\ \A j \in 1..(i - 1) : ~IsMatch(j)]
             IN  [series |-> to_numeric(Column(df, c)), label |-> c]
        ELSE [series |-> rolling_std(to_numeric(Column(df, ret_col)), VolWindow),
              label |-> S_computed]

_find_or_build_vol(df, ret_col) ==
    LET IsPreferred(i) == PreferredVolNames[i] \in Range(df.cols)
        IsMatch(i) == LooksLikeVol21(df.cols[i])
    IN  IF \E i \in DOMAIN PreferredVolNames : IsPreferred(i)
        THEN LET name == PreferredVolNames[CHOOSE i \in DOMAIN PreferredVolNames :
                             IsPreferred(i) /\ \A j \in 1..(i - 1) : ~IsPreferred(j)]
             IN  [series |-> to_numeric(Column(df, name)), label |-> name]
        ELSE IF \E i \in DOMAIN df.cols : IsMatch(i)
        THEN LET c == df.cols[CHOOSE i \in DOMAIN df.cols :
                          IsMatch(i) /\ \A j \in 1..(i - 1) : ~IsMatch(j)]
             IN  [series |-> to_numeric(Column(df, c)), label |-> c]
        ELSE [series |-> rolling_std(to_numeric(Column(df, ret_col)), VolWindow),
              label |-> S_computed]

\* df.assign(**{col: series})
assign(df, col, series) ==
    [df EXCEPT !.rows = [i \in DOMAIN df.rows |->
        [df.rows[i] EXCEPT !.vals[ColPos(df.cols, col)] = series[i]]]]

\* model.summary().as_text(): the labels of the fit ("y" on "const" and "x"),
\* the number of observations, the estimates (a function of the fitted
\* sample, kept as the sample) and the date and time of the fit.
RegressionText(aligned, now) ==
    [exists |-> TRUE, depvar |-> S_y, terms |-> <<S_const, S_x>>,
     nobs |-> Len(aligned), sample |-> aligned, stamp |-> now]

Figure(xlabel, ylabel, points) ==
    [exists |-> TRUE, xlabel |-> xlabel, ylabel |-> ylabel, points |-> points]

S_returns_note == <<" ","(","r","e","t","u","r","n","s"," ","i","f"," ",
                    "p","r","i","c","e","-","l","i","k","e",")">>

Stage3Ends(how, rc, locals) ==
    /\ pc3' = "idle"
    /\ last' = [stage |-> 3, rc |-> rc, how |-> how]
    /\ loc3' = locals

\* main, lines 129-171: load, select, transform, pair, gate, fit.
S3Start ==
    /\ pc3 = "idle"
    /\ LET loaded == _load_dataset(procDir)
       IN  IF loaded.none \/ IsEmpty(loaded.df)
           THEN Stage3Ends("exit_nodata", 0, NoLocals)
           ELSE LET df == _maybe_set_datetime_index(loaded.df)
                    eq == _pick_first(df.cols, S_eq)
                    rt == PickRate(df.cols)
                IN  IF eq.none
                    THEN Stage3Ends("raise_noequity", 1, [df |-> df])
                    ELSE IF rt.none
                    THEN Stage3Ends("raise_norate", 1, [df |-> df, eq_col |-> eq.col])
                    ELSE LET y == _ensure_returns(Column(df, eq.col)).value
                             x == to_numeric(Column(df, rt.col))
                             locals == [df |-> df, eq_col |-> eq.col, d_rate_col |-> rt.col,
                                        y |-> y, x |-> x, aligned |-> Paired(y, x)]
                         IN  IF TooFewObservations(locals.aligned)
                             THEN Stage3Ends("exit_gate", 0, locals)
                             ELSE /\ pc3' = "fitted"
                                  /\ loc3' = locals
                                  /\ last' = [stage |-> 3, rc |-> 0, how |-> "running"]
    /\ before' = Snapshot
    /\ written' = {}
    /\ UNCHANGED <<env, rawDir, procDir, reports, clock, arg, ret>>

\* Mutant of S3WriteRegression: the summary text is not written before the figures.
S3WriteRegression_skipped ==
    /\ pc3 = "fitted"
    /\ pc3' = "regression_saved"
    /\ UNCHANGED <<env, rawDir, procDir, reports, clock, loc3, last, before, written, arg, ret>>

\* main, lines 173-179
S3WriteRegression ==
    /\ pc3 = "fitted"
    /\ reports' = [reports EXCEPT
                      !["baseline_regression.txt"] = RegressionText(loc3.aligned, clock)]
    /\ written' = written \cup {"baseline_regression.txt"}
    /\ pc3' = "regression_saved"
    /\ UNCHANGED <<env, rawDir, procDir, clock, loc3, last, before, arg, ret>>

\* main, lines 181-194
S3Figure1 ==
    /\ pc3 = "regression_saved"
    /\ reports' = [reports EXCEPT
                      !["baseline_scatter.png"] =
                          Figure(loc3.d_rate_col, loc3.eq_col \o S_returns_note, loc3.aligned)]
    /\ written' = written \cup {"baseline_scatter.png"}
    /\ pc3' = "figure1_saved"
    /\ UNCHANGED <<env, rawDir, procDir, clock, loc3, last, before, arg, ret>>

\* main, lines 196-223
S3Figure2 ==
    /\ pc3 = "figure1_saved"
    /\ LET vol == _find_or_build_vol(assign(loc3.df, loc3.eq_col, loc3.y), loc3.eq_col)
           tmp == Paired(to_numeric(Column(loc3.df, loc3.d_rate_col)), to_numeric(vol.series))
       IN  /\ reports' = IF Len(tmp) < MinVolObservations THEN reports
                         ELSE [reports EXCEPT !["volatility_scatter.png"] =
                                   Figure(loc3.d_rate_col, vol.label, tmp)]
           /\ written' = IF Len(tmp) < MinVolObservations THEN written
                         ELSE written \cup {"volatility_scatter.png"}
           /\ loc3' = [df |-> loc3.df, eq_col |-> loc3.eq_col, d_rate_col |-> loc3.d_rate_col,
                       y |-> loc3.y, x |-> loc3.x, aligned |-> loc3.aligned,
                       vol_series |-> vol.series, vol_label |-> vol.label, tmp |-> tmp]
    /\ pc3' = "idle"
    /\ last' = [stage |-> 3, rc |-> 0, how |-> "done"]
    /\ UNCHANGED <<env, rawDir, procDir, clock, before, arg, ret>>

(***************************************************************************)
(* 04_make_report.py                                                       *)
(***************************************************************************)
\* Mutant of SummaryText: a summary already on disk counts as the figure.
SummaryText_remembering(now, rep) ==
    [exists |-> TRUE, generated |-> now,
     figure |-> rep["baseline_scatter.png"].exists \/ rep["summary.md"].exists,
     regression |-> rep["baseline_regression.txt"].exists]

\* The lines of summary.md that vary: the timestamp and the two artifact lines.
SummaryText(now, rep) ==
    [exists |-> TRUE, generated |-> now,
     figure |-> rep["baseline_scatter.png"].exists,
     regression |-> rep["baseline_regression.txt"].exists]

Stage4 ==
    /\ pc3 = "idle"
    /\ reports' = [reports EXCEPT !["summary.md"] = SummaryText(clock, reports)]
    /\ last' = [stage |-> 4, rc |-> 0, how |-> "done"]
    /\ before' = Snapshot
    /\ written' = {"summary.md"}
    /\ UNCHANGED <<env, rawDir, procDir, clock, pc3, loc3, arg, ret>>

(***************************************************************************)
(* 01_fetch_data.py                                                        *)
(***************************************************************************)
SupportedSuffixes == {S_csv, S_parquet}

\* _copy_if_provided: data/raw after the call.
_copy_if_provided(dir, source, target_stem) ==
    IF ~source.set THEN dir
    ELSE IF ~source.isfile THEN dir
    ELSE IF Lower(source.suffix) \notin SupportedSuffixes THEN dir
    ELSE [dir EXCEPT ![target_stem][Lower(source.suffix)] = source.content]

Stage1 ==
    /\ pc3 = "idle"
    /\ rawDir' = _copy_if_provided(_copy_if_provided(rawDir, env["RATES_SOURCE_PATH"], "rates"),
                                   env["EQUITY_SOURCE_PATH"], "equity")
    /\ last' = [stage |-> 1, rc |-> 0, how |-> "done"]
    /\ before' = Snapshot
    /\ written' = {<<v[2], Lower(env[v[1]].suffix)>> :
                       v \in {w \in {<<"RATES_SOURCE_PATH", "rates">>, <<"EQUITY_SOURCE_PATH", "equity">>} :
                                 _copy_if_provided(EmptyRaw, env[w[1]], w[2]) # EmptyRaw}}
    /\ UNCHANGED <<env, procDir, reports, clock, pc3, loc3, arg, ret>>

(***************************************************************************)
(* Specification of stage 3 alone, over processed datasets of any column  *)
(* layout, with row counts around the two sample-size gates.               *)
(***************************************************************************)
S_eq_SPX == S_eq \o S_SPX
S_eq_NDX == S_eq \o S_NDX
S_EQ_SPX == <<"E","Q","_">> \o S_SPX
S_rate_3m == S_rate \o S_3m
S_d_rate_3m == S_d_rate \o S_3m
S_d_rate_10y == S_d_rate \o S_10y
S_eq_VOL21 == S_eq \o <<"V","O","L","2","1">>
S_my_Vol_21d == <<"m","y","_","V","o","l","_","2","1","d">>

\* A column of a test dataset: its name and the kind of its values.
Col(name, kind) == [name |-> name, kind |-> kind]

Layouts ==
    { <<Col(S_eq_SPX, "eq"), Col(S_rate_3m, "level"), Col(S_d_rate_3m, "change")>>,
      <<Col(S_rate_3m, "level"), Col(S_d_rate_3m, "change")>>,
      <<Col(S_eq_SPX, "eq"), Col(S_rate_3m, "level")>>,
      <<Col(S_eq_SPX, "eq"), Col(S_3m, "level")>>,
      <<Col(S_EQ_SPX, "eq"), Col(S_rate_3m, "level")>>,
      <<Col(S_rate_3m, "level"), Col(S_eq_NDX, "eq"), Col(S_d_rate_10y, "change"),
        Col(S_eq_SPX, "other"), Col(S_d_rate_3m, "level")>>,
      <<Col(S_eq_SPX, "eq"), Col(S_d_rate_3m, "change"), Col(S_vol, "positive")>>,
      <<Col(S_eq_SPX, "eq"), Col(S_d_rate_3m, "change"), Col(S_eq_VOL21, "positive")>>,
      <<Col(S_eq_SPX, "eq"), Col(S_d_rate_3m, "change"), Col(S_my_Vol_21d, "positive"),
        Col(S_vol_1m, "other")>>,
      <<Col(S_eq_SPX, "eq"), Col(S_d_rate_3m, "change"), Col(S_note, "text")>> }

KindValue(kind, eqpat, t) ==
    CASE kind = "eq" -> Num(PatternValue(eqpat, t))
      [] kind = "level" -> Num(t * t)
      [] kind = "change" -> Num(2 * t - 1)
      [] kind = "positive" -> Num(1 + (t % 2))
      [] kind = "text" -> Txt
      [] OTHER -> Num(t % 5)

\* A processed dataset of n rows; the eq cells of the rows in eqnans and the
\* change cells of the rows in xnans are missing.
MakeDataset(layout, n, eqpat, eqnans, xnans) ==
    [cols |-> [j \in DOMAIN layout |-> layout[j].name],
     num  |-> {layout[j].name : j \in {i \in DOMAIN layout : layout[i].kind # "text"}},
     idx  |-> "datetime",
     rows |-> [t \in 1..n |->
                 [date |-> t,
                  vals |-> [j \in DOMAIN layout |->
                              IF \/ layout[j].kind = "eq" /\ t \in eqnans
                                 \/ layout[j].kind = "change" /\ t \in xnans
                              THEN NaN
                              ELSE KindValue(layout[j].kind, eqpat, t)]]]]

RowCounts ==
    ((MinObservations - RowSlack)..(MinObservations + RowSlack))
       \cup ((MinVolObservations + VolWindow - RowSlack)..(MinVolObservations + VolWindow))

Datasets ==
    {MakeDataset(l, n, eqpat, nans[1], nans[2]) :
        l \in Layouts, n \in RowCounts, eqpat \in {"price", "return"},
        nans \in {<<{}, {}>>, <<{3}, {}>>, <<{}, {3}>>, <<{3}, {5}>>}}

EmptyDataset == MakeDataset(CHOOSE l \in Layouts : Len(l) = 2, 0, "price", {}, {})

\* data/processed as stage 3 may find it.
ProcDirs ==
    {[parquet |-> to_parquet(d), csv |-> to_csv(d)] : d \in Datasets}
      \cup {[parquet |-> pq, csv |-> to_csv(d)] :
               pq \in {Absent, Corrupt},
               d \in {MakeDataset(l, MinObservations, "price", {}, {}) : l \in Layouts}}
      \cup {[parquet |-> pq, csv |-> cs] :
               pq \in {Absent, Corrupt, to_parquet(EmptyDataset)},
               cs \in {Absent, Corrupt, to_csv(EmptyDataset)}}

InitAnalysis ==
    /\ procDir \in ProcDirs
    /\ env = NoEnv
    /\ rawDir = EmptyRaw
    /\ reports = EmptyReports
    /\ clock = 0
    /\ pc3 = "idle"
    /\ loc3 = NoLocals
    /\ last = NoRun
    /\ before = NoSnapshot
    /\ written = {}
    /\ arg = <<>>
    /\ ret = NotCalled

NextAnalysis == S3Start \/ S3WriteRegression \/ S3Figure1 \/ S3Figure2

SpecAnalysis == InitAnalysis /\ [][NextAnalysis]_vars

(***************************************************************************)
(* Stage 3 claims                                                          *)
(***************************************************************************)
RegressionFile == reports["baseline_regression.txt"]
Figure1File == reports["baseline_scatter.png"]
Figure2File == reports["volatility_scatter.png"]
SummaryFile == reports["summary.md"]

Stage3Ended == last.stage = 3 /\ pc3 = "idle"

\* The run got as far as the sample-size gate.
ReachedGate == Stage3Ended /\ last.how \in {"exit_gate", "done"}

\* The rows where neither y nor x is missing.
PairedCount ==
    Cardinality({i \in DOMAIN loc3.y : ~IsNa(loc3.y[i]) /\ ~IsNa(loc3.x[i])})

\* C4: a run of stage 3 that reaches the gate writes baseline_regression.txt
\* iff at least 30 paired observations remain: with 29 it exits with status 0
\* and has written nothing, with 30 it writes the text.
C4_SampleSizeGate ==
    /\ ReachedGate =>
          /\ ("baseline_regression.txt" \in written) <=> (PairedCount >= 30)
          /\ PairedCount = 29 =>
                /\ last.how = "exit_gate" /\ last.rc = 0
                /\ written = {} /\ reports = before.reports
          /\ PairedCount < 30 =>
                /\ last.how = "exit_gate" /\ last.rc = 0
                /\ written = {} /\ reports = before.reports
          /\ PairedCount = 30 => RegressionFile.exists /\ RegressionFile.nobs = 30
          /\ PairedCount >= 30 =>
                /\ last.how = "done"
                /\ RegressionFile.exists /\ RegressionFile.nobs = PairedCount
    /\ pc3 # "idle" => PairedCount >= 30

\* C4 witness: a finished run with exactly 30 paired observations that wrote
\* the regression text.
C4_Witness ==
    /\ ReachedGate
    /\ PairedCount = 30
    /\ "baseline_regression.txt" \in written

\* The positions of the columns that start with a prefix.
WithPrefix(cols, prefix) == {i \in DOMAIN cols : StartsWith(cols[i], prefix)}

Least(S) == CHOOSE i \in S : \A j \in S : i <= j

\* A run of stage 3 that found a dataset.
Selected == last.stage = 3 /\ last.how # "exit_nodata"

\* C8: the equity series is the first eq_ column and the run raises without
\* one; the rate-change series is the first d_rate_ column, the first rate_
\* column only when no d_rate_ column exists, and the run raises with
\* neither; a run that raises writes nothing.
C8_ColumnSelection ==
    Selected =>
        LET cols == loc3.df.cols
            eqs  == WithPrefix(cols, S_eq)
            ds   == WithPrefix(cols, S_d_rate)
            rs   == WithPrefix(cols, S_rate)
        IN  /\ (last.how = "raise_noequity") <=> (eqs = {})
            /\ (last.how = "raise_norate") <=> (eqs # {} /\ ds = {} /\ rs = {})
            /\ last.how \in {"raise_noequity", "raise_norate"} =>
                  /\ last.rc = 1
                  /\ written = {}
                  /\ reports = before.reports
                  /\ pc3 = "idle"
            /\ last.how \notin {"raise_noequity", "raise_norate"} =>
                  /\ loc3.eq_col = cols[Least(eqs)]
                  /\ ds # {} => loc3.d_rate_col = cols[Least(ds)]
                  /\ ds = {} => loc3.d_rate_col = cols[Least(rs)]

\* C8 witness: a dataset with two eq_ and two d_rate_ columns, none of them
\* the first column, was analysed to the end.
C8_Witness ==
    /\ Selected /\ last.how = "done"
    /\ Cardinality(WithPrefix(loc3.df.cols, S_eq)) >= 2
    /\ Cardinality(WithPrefix(loc3.df.cols, S_d_rate)) >= 2
    /\ 1 \notin WithPrefix(loc3.df.cols, S_eq)

\* The column c of the frame handed to _find_or_build_vol: the dataset with
\* its equity column replaced by y.
AssignedColumn(c) == IF c = loc3.eq_col THEN loc3.y ELSE Column(loc3.df, c)

\* s is the trailing standard deviation of y over w observations.
IsRollingStd(s, y, w) ==
    /\ DOMAIN s = DOMAIN y
    /\ \A i \in DOMAIN y :
          IF i >= w /\ \A j \in (i - w + 1)..i : y[j].k \notin {"nan", "inf"}
          THEN /\ s[i].k = "std"
               /\ Len(s[i].w) = w
               /\ \A j \in 1..w : s[i].w[j] = y[i - w + j]
          ELSE IsNa(s[i])

\* The series with every cell that is not a number made missing.
AsNumbers(col) == [i \in DOMAIN col |-> IF col[i].k = "str" \/ col[i].k = "date" THEN NaN ELSE col[i]]

VolNamed(cols) == {i \in DOMAIN cols : Contains(Lower(cols[i]), S_vol) /\ Contains(Lower(cols[i]), S_21)}

\* The first of the preferred names that is a column.
PreferredPresent(cols) == {i \in DOMAIN PreferredVolNames : PreferredVolNames[i] \in Range(cols)}

Figure2Reached == last.stage = 3 /\ last.how = "done" /\ pc3 = "idle"

\* C5 (as amended): the volatility series is the column with the first of
\* the names vol_21, volatility_21, rolling_vol_21, vol21, vol_1m,
\* rolling_vol, vol (exact match) when one is a column; else the first
\* column whose lower-cased name contains "vol" and "21", either one
\* converted to numbers; else the 21-observation trailing standard
\* deviation of the transformed y.
C5_Volatility ==
    Figure2Reached =>
        LET cols == loc3.df.cols
        IN  IF PreferredPresent(cols) # {}
            THEN /\ loc3.vol_label = PreferredVolNames[Least(PreferredPresent(cols))]
                 /\ loc3.vol_series = AsNumbers(AssignedColumn(loc3.vol_label))
            ELSE IF VolNamed(cols) # {}
            THEN /\ loc3.vol_label = cols[Least(VolNamed(cols))]
                 /\ loc3.vol_series = AsNumbers(AssignedColumn(loc3.vol_label))
            ELSE /\ loc3.vol_label = S_computed
                 /\ IsRollingStd(loc3.vol_series, loc3.y, 21)

\* C5 witness: a column named by the preferred list although its name does
\* not contain "21" was taken as the volatility series.
C5_Witness ==
    /\ Figure2Reached
    /\ PreferredPresent(loc3.df.cols) # {}
    /\ ~(Contains(Lower(loc3.vol_label), S_vol) /\ Contains(Lower(loc3.vol_label), S_21))
    /\ Figure2File.exists

\* C5 as stated: a column whose name contains "vol" and "21" is used when
\* there is one, and otherwise the volatility is computed from y.
C5_Original ==
    Figure2Reached =>
        LET cols == loc3.df.cols
        IN  IF VolNamed(cols) # {}
            THEN \E i \in VolNamed(cols) : loc3.vol_series = AssignedColumn(cols[i])
            ELSE IsRollingStd(loc3.vol_series, loc3.y, 21)

S_CSV == <<".","C","S","V">>
S_txt == <<".","t","x","t">>

\* Two raw tables over the same n days, without gaps.
RatesOf(sc) == MakeTable(S_3m, 1..sc.n, {}, sc.ratepat, "plain")
EquityOf(sc) == MakeTable(S_SPX, 1..sc.n, {}, sc.eqpat, "plain")

Scenario(n, eqpat) == [n |-> n, eqpat |-> eqpat, ratepat |-> "square"]

\* MaxDays days of prices or of returns, and the shortest run of prices whose
\* returns still fall short of the regression gate.
Scenarios ==
    {Scenario(MaxDays, "price"), Scenario(MaxDays, "return"),
     Scenario(MinObservations + 1, "price")}

\* The tables the environment variables point to: the other kind of equity
\* values and other rates over the same days.
Other(sc) ==
    [n |-> sc.n, eqpat |-> IF sc.eqpat = "price" THEN "return" ELSE "price",
     ratepat |-> "alternate"]

Source(suffix, content) ==
    [set |-> TRUE, isfile |-> TRUE, suffix |-> suffix, content |-> content]
Dangling == [set |-> TRUE, isfile |-> FALSE, suffix |-> S_csv, content |-> Absent]

EnvOf(mode, sc) ==
    CASE mode = "csv" ->
            [RATES_SOURCE_PATH |-> Source(S_csv, RatesOf(Other(sc))),
             EQUITY_SOURCE_PATH |-> Source(S_csv, EquityOf(Other(sc)))]
      [] mode = "mixed" ->
            [RATES_SOURCE_PATH |-> Source(S_CSV, RatesOf(sc)),
             EQUITY_SOURCE_PATH |-> Source(S_txt, EquityOf(Other(sc)))]
      [] mode = "dangling" ->
            [RATES_SOURCE_PATH |-> Dangling,
             EQUITY_SOURCE_PATH |-> Source(S_parquet, EquityOf(sc))]
      [] OTHER -> NoEnv

RawOf(mode, sc) ==
    CASE mode = "both" ->
            [EmptyRaw EXCEPT !["rates"][S_csv] = RatesOf(sc), !["equity"][S_csv] = EquityOf(sc)]
      [] mode = "rates_only" -> [EmptyRaw EXCEPT !["rates"][S_csv] = RatesOf(sc)]
      [] mode = "equity_only" -> [EmptyRaw EXCEPT !["equity"][S_csv] = EquityOf(sc)]
      [] OTHER -> EmptyRaw

\* data/raw and the environment as the operator may have left them.
Setups ==
    {<<"both", "none">>, <<"both", "csv">>, <<"empty", "none">>, <<"empty", "csv">>,
     <<"rates_only", "dangling">>, <<"equity_only", "mixed">>}

\* data/processed before the first run: nothing, or what an earlier project left.
StaleProcDirs ==
    {EmptyProc,
     [parquet |-> Corrupt, csv |-> Absent],
     [parquet |-> to_parquet(EmptyDataset), csv |-> Corrupt],
     [parquet |-> Absent,
      csv |-> to_csv(MakeDataset(<<Col(S_rate_3m, "level"), Col(S_d_rate_3m, "change")>>,
                                 MinObservations, "price", {}, {}))]}

Quiet ==
    /\ reports = EmptyReports
    /\ clock = 0
    /\ pc3 = "idle"
    /\ loc3 = NoLocals
    /\ last = NoRun
    /\ before = NoSnapshot
    /\ written = {}
    /\ arg = <<>>
    /\ ret = NotCalled

Init ==
    /\ \E sc \in Scenarios, setup \in Setups :
          /\ rawDir = RawOf(setup[1], sc)
          /\ env = EnvOf(setup[2], sc)
    /\ procDir \in StaleProcDirs
    /\ Quiet

Next ==
    \/ Stage1
    \/ Stage2
    \/ S3Start
    \/ S3WriteRegression
    \/ S3Figure1
    \/ S3Figure2
    \/ Stage4

Spec == Init /\ [][Next]_vars

(***************************************************************************)
(* Specification of the pipeline with the wall clock advancing between     *)
(* and during the runs, from a complete data/raw.                          *)
(***************************************************************************)
InitClock ==
    /\ \E setup \in {<<"both", "none">>, <<"rates_only", "dangling">>} :
          /\ rawDir = RawOf(setup[1], Scenario(MaxDays, "price"))
          /\ env = EnvOf(setup[2], Scenario(MaxDays, "price"))
    /\ procDir = EmptyProc
    /\ Quiet

\* Time passes.
Tick ==
    /\ clock < MaxClock
    /\ clock' = clock + 1
    /\ UNCHANGED <<env, rawDir, procDir, reports, pc3, loc3, last, before, written, arg, ret>>

NextClock ==
    \/ Stage1
    \/ Stage2
    \/ S3Start
    \/ S3WriteRegression
    \/ S3Figure1
    \/ S3Figure2
    \/ Stage4
    \/ Tick

SpecClock == InitClock /\ [][NextClock]_vars

(***************************************************************************)
(* Pipeline claims                                                         *)
(***************************************************************************)
\* data/raw holds no file of the stem, under either extension.
NoRawFile(dir, stem) == \A e \in {S_csv, S_parquet} : ~dir[stem][e].exists

Unusable(f) == ~f.exists \/ ~f.readable

HoldsNothing(f) == f.rows = <<>> \/ f.cols = <<>>

\* data/processed offers stage 3 no dataset: no file that reads, or the file
\* it reads first (parquet before CSV) has no rows or no columns.
NoDataset(dir) ==
    IF ~Unusable(dir["parquet"]) THEN HoldsNothing(dir["parquet"])
    ELSE IF ~Unusable(dir["csv"]) THEN HoldsNothing(dir["csv"])
    ELSE TRUE

FilesUntouched ==
    /\ rawDir = before.raw
    /\ procDir = before.proc
    /\ reports = before.reports

\* C7: a run of stage 2 that finds rates.* or equity.* absent exits with
\* status 0, and a run of stage 3 that finds no dataset (absent, unreadable
\* or empty) exits with status 0; both have written nothing and every file
\* is as the run found it.
C7_MissingInputExit ==
    /\ (last.stage = 2 /\ (NoRawFile(before.raw, "rates") \/ NoRawFile(before.raw, "equity"))) =>
          /\ last.how = "exit" /\ last.rc = 0
          /\ written = {}
          /\ FilesUntouched
    /\ (last.stage = 3 /\ NoDataset(before.proc)) =>
          /\ last.how = "exit_nodata" /\ last.rc = 0
          /\ pc3 = "idle"
          /\ written = {}
          /\ FilesUntouched

\* C7 witness: stage 3 exited on an unreadable dataset right after stage 2
\* exited on a missing raw file and left an existing processed file alone.
C7_Witness ==
    /\ last.stage = 3 /\ last.how = "exit_nodata"
    /\ before.last.stage = 2 /\ before.last.how = "exit"
    /\ \E f \in DOMAIN procDir : procDir[f].exists
    /\ ~NoRawFile(rawDir, "rates") /\ NoRawFile(rawDir, "equity")

\* The file is a table of the columns date and col with one row for each of
\* the days 1..n and no missing value.
IsGapless(f, col, n) ==
    /\ f.exists /\ f.readable
    /\ f.cols = <<S_date, col>>
    /\ Len(f.rows) = n
    /\ {f.rows[i].vals[1] : i \in DOMAIN f.rows} = {DateCell(t) : t \in 1..n}
    /\ \A i \in DOMAIN f.rows : f.rows[i].vals[2].k = "num"

\* data/raw is the scenario: rates.csv (date, 3m) and equity.csv (date, SPX)
\* over the same MaxDays days.
ScenarioRaw ==
    /\ ~rawDir["rates"][S_parquet].exists /\ ~rawDir["equity"][S_parquet].exists
    /\ IsGapless(rawDir["rates"][S_csv], S_3m, MaxDays)
    /\ IsGapless(rawDir["equity"][S_csv], S_SPX, MaxDays)

ScenarioBuilt == last.stage = 2 /\ ScenarioRaw

ScenarioAnalysed ==
    /\ last.stage = 3 /\ pc3 = "idle"
    /\ before.last.stage = 2
    /\ ScenarioRaw

\* The value a gapless raw table holds on day t.
ValueOn(f, t) == f.rows[CHOOSE i \in DOMAIN f.rows : f.rows[i].vals[1] = DateCell(t)].vals[2]

\* The change of the 3m rate from day t - 1 to day t.
RateChange(t) ==
    Sub(ValueOn(rawDir["rates"][S_csv], t), ValueOn(rawDir["rates"][S_csv], t - 1))

\* C9: on the scenario, stage 2 writes a dataset of exactly the columns
\* eq_SPX, rate_3m, d_rate_3m and MaxDays - 1 rows (days 2..MaxDays, the
\* change being the rate minus the rate of the day before); stage 3 run next
\* passes the gate and writes a regression text with an intercept and one
\* slope, fitted on d_rate_3m values of that dataset.
C9_EndToEnd ==
    /\ ScenarioBuilt =>
          /\ last.how = "done"
          /\ written = {"dataset.parquet", "dataset.csv"}
          /\ Dataset.cols = <<S_eq_SPX, S_rate_3m, S_d_rate_3m>>
          /\ Len(Dataset.rows) = MaxDays - 1
          /\ \A i \in DOMAIN Dataset.rows :
                /\ Dataset.rows[i].date = i + 1
                /\ Dataset.rows[i].vals =
                      << ValueOn(rawDir["equity"][S_csv], i + 1),
                         ValueOn(rawDir["rates"][S_csv], i + 1),
                         RateChange(i + 1) >>
          /\ procDir["csv"].cols = <<S_date>> \o Dataset.cols
          /\ Len(procDir["csv"].rows) = MaxDays - 1
    /\ ScenarioAnalysed =>
          /\ last.how = "done" /\ last.rc = 0
          /\ "baseline_regression.txt" \in written
          /\ RegressionFile.exists
          /\ Len(RegressionFile.terms) = 2
          /\ RegressionFile.nobs >= MaxDays - 2
          /\ LET changes == {RateChange(t) : t \in 2..MaxDays}
             IN  \A i \in DOMAIN RegressionFile.sample :
                    RegressionFile.sample[i][2] \in changes
          /\ loc3.d_rate_col = S_d_rate_3m
          /\ loc3.eq_col = S_eq_SPX

\* C9 witness: stage 3 has finished on the dataset stage 2 just built from
\* the scenario's price levels, one more observation lost to the returns.
C9_Witness ==
    /\ ScenarioAnalysed
    /\ before.last.how = "done"
    /\ Len(Dataset.rows) = MaxDays - 1
    /\ RegressionFile.exists /\ RegressionFile.nobs = MaxDays - 2

\* The stage whose run ended last was also the stage run before it.
Rerun(k) == last.stage = k /\ before.last.stage = k /\ pc3 = "idle"

WithoutStamp(f) == IF f.exists THEN [f EXCEPT !.stamp = 0] ELSE f
WithoutGenerated(f) == IF f.exists THEN [f EXCEPT !.generated = 0] ELSE f

\* C6 (as amended): a second run of stage 1 or of stage 2 leaves every file
\* as the first run left it; a second run of stage 3 leaves the figures as
\* they were and the regression text as it was but for the date and time of
\* the fit; a second run of stage 4 leaves summary.md as it was but for the
\* "Generated on" timestamp.
C6_Idempotent ==
    /\ Rerun(1) => FilesUntouched
    /\ Rerun(2) => FilesUntouched
    /\ Rerun(3) =>
          /\ rawDir = before.raw /\ procDir = before.proc
          /\ \A a \in Artifacts \ {"baseline_regression.txt"} : reports[a] = before.reports[a]
          /\ WithoutStamp(RegressionFile) = WithoutStamp(before.reports["baseline_regression.txt"])
    /\ Rerun(4) =>
          /\ rawDir = before.raw /\ procDir = before.proc
          /\ \A a \in Artifacts \ {"summary.md"} : reports[a] = before.reports[a]
          /\ WithoutGenerated(SummaryFile) = WithoutGenerated(before.reports["summary.md"])

\* C6 witness: stage 4 was run twice in a row at different times, over the
\* artifacts of a finished analysis.
C6_Witness ==
    /\ Rerun(4)
    /\ before.reports["summary.md"].exists
    /\ SummaryFile.generated # before.reports["summary.md"].generated
    /\ SummaryFile.figure /\ SummaryFile.regression

\* C6 as stated: a second run of any stage leaves every output file with the
\* content the first run gave it.
C6_Original == \A k \in 1..4 : Rerun(k) => FilesUntouched

====
